---- MODULE Spec2Model ----
(***************************************************************************)
(* A model of stalker_hls_proxy.py: the bounded LRU response cache, the    *)
(* per-portal MAC rotation and the playlist acquirer, and the per-stream   *)
(* session state machine with its segment-count driven re-acquisition.     *)
(*                                                                         *)
(* The program runs on one asyncio event loop: code between two awaits is  *)
(* atomic, so every action below is the code from one suspension point to  *)
(* the next.  Wall-clock time (time.time()) is the variable now for the    *)
(* cache, advanced by the Tick actions; the sessions keep ages instead.    *)
(*                                                                         *)
(* Seven specifications share the variables:                               *)
(*   SpecCache    the LRU cache (class LRU) under get/put calls;           *)
(*   SpecPool     the effective pool function _pool over configurations;   *)
(*   SpecAcq      concurrent obtain_playlist calls over the shared cursors;*)
(*   SpecFetch    concurrent fetch calls over the cache;                   *)
(*   SpecRewrite  rewrite_m3u8 over small playlists;                       *)
(*   SpecReap     the reaper beside playlist and segment requests;         *)
(*   Spec         the playlist and segment routes over the session map.    *)
(***************************************************************************)
EXTENDS Integers, Sequences, FiniteSets, TLC

VARIABLES
    now,        \* time.time(), in whole seconds
    entries,    \* LRU: the OrderedDict, oldest first, as a sequence of records
    now_b,      \* LRU.now_b: the byte total the cache keeps
    lastCall,   \* the last cache call and what it returned (observation)
    cfg,        \* SpecPool: the configuration _pool is applied to
    poolOut,    \* SpecPool: what _pool returned
    mac_pos,    \* _mac_pos: portal -> cursor into its pool (-1 before the first call)
    hist,       \* portal -> the MACs next_mac returned for it, in order (observation)
    call,       \* the obtain_playlist calls in flight or finished
    sessions,   \* the sessions dict: stream id -> its Session (index in heap, 0: none)
    heap,       \* the Session objects
    req,        \* the playlist and segment requests in flight
    out,        \* the last response sent (observation)
    reap_in,    \* seconds until cleanup_sessions wakes from its sleep
    fcall,      \* the fetch calls in flight or finished
    rw          \* SpecRewrite: a playlist text, its base, and what rewrite_m3u8 gave

cacheVars == <<entries, now_b, lastCall>>
poolVars == <<cfg, poolOut>>
acqVars == <<mac_pos, hist, call>>
sessVars == <<sessions, heap, req, out, reap_in>>
fetchVars == <<fcall>>
rwVars == <<rw>>
vars == <<now, entries, now_b, lastCall, cfg, poolOut, mac_pos, hist, call,
          sessions, heap, req, out, reap_in, fcall, rw>>

\* Python's None, as a cache miss: the empty tuple (a hit is <<body, status>>).
None == <<>>

(***************************************************************************)
(* Configuration (src lines 22-95), scaled down: three portals, the last   *)
(* one the credentialed portal; "pB" has no entry in MAC_POOLS and so gets *)
(* DEFAULT_MAC_POOL.  MACs are numbers.                                    *)
(***************************************************************************)
FOXX == "foxx.pure-iptv.net:80"
PORTALS == <<"pA", "pB", FOXX>>
MAC_POOLS == [h \in {"pA", FOXX} |-> IF h = "pA" THEN <<1>> ELSE <<4, 5, 6>>]
DEFAULT_MAC_POOL == <<3>>
TOKEN_HOSTS == {FOXX}
\* AUTH_TOKENS: the dict's keys in insertion order (its values are the tokens).
AUTH_TOKENS == <<6, 4>>
BAD_CODES == {204, 405, 407, 451, 458, 512}

(***************************************************************************)
(* LRU cache (class LRU, src lines 108-131)                                *)
(***************************************************************************)

\* LRU.max_k and LRU.max_b, scaled down from MAX_CACHE_KEYS = 10000 and
\* MAX_CACHE_BYTES = 50 MiB so that both evictions happen.
MaxK == 2
MaxB == 2
\* The last second the cache's clock reaches.
CacheMaxTime == 2
\* Keys, body sizes (one of them larger than the whole cache), TTLs and the
\* status the cache calls are drawn from.
Keys == 1..(MaxK + 1)
Sizes == {0, 1, MaxB, MaxB + 1}
Ttls == {0, 1}
Statuses == {200}

\* A body of n bytes: bytes(n); len(b) is Len(b).
Body(n) == [i \in 1..n |-> 0]

RECURSIVE SumSz(_)
\* The sum of the body lengths of the entries actually stored.
SumSz(es) == IF es = <<>> THEN 0 ELSE Len(Head(es).body) + SumSz(Tail(es))

Has(es, k) == \E i \in 1..Len(es) : es[i].k = k
Rec(es, k) == es[CHOOSE i \in 1..Len(es) : es[i].k = k]
\* OrderedDict.pop(k, None): the dict without k.
Pop(es, k) == SelectSeq(es, LAMBDA e : e.k # k)

\* A get that returns a stale entry: the expiry test is missing.
LRU_get_noexpiry(es, nb, t, k) ==
    IF ~Has(es, k) THEN [entries |-> es, now_b |-> nb, ret |-> None]
    ELSE LET rec == Rec(es, k) IN
         [entries |-> Append(Pop(es, k), rec), now_b |-> nb,
          ret |-> <<rec.body, rec.st>>]

\* A get that leaves a hit where it was in the order.
LRU_get_notouch(es, nb, t, k) ==
    IF ~Has(es, k) THEN [entries |-> es, now_b |-> nb, ret |-> None]
    ELSE LET rec == Rec(es, k) IN
         IF rec.exp < t
         THEN [entries |-> Pop(es, k), now_b |-> nb - rec.sz, ret |-> None]
         ELSE [entries |-> es, now_b |-> nb, ret |-> <<rec.body, rec.st>>]

\* LRU.get(k) at time t: pop the record; a miss when there is none; when it has
\* expired drop it and subtract its size; otherwise re-insert it last.
LRU_get(es, nb, t, k) ==
    IF ~Has(es, k) THEN [entries |-> es, now_b |-> nb, ret |-> None]
    ELSE LET rec == Rec(es, k) IN
         IF rec.exp < t
         THEN [entries |-> Pop(es, k), now_b |-> nb - rec.sz, ret |-> None]
         ELSE [entries |-> Append(Pop(es, k), rec), now_b |-> nb,
               ret |-> <<rec.body, rec.st>>]

\* An eviction that runs once ("if" for "while").
Evict_once(es, nb, max_b, max_k) ==
    IF (nb > max_b \/ Len(es) > max_k) /\ es # <<>>
    THEN [entries |-> Tail(es), now_b |-> nb - Head(es).sz]
    ELSE [entries |-> es, now_b |-> nb]

RECURSIVE Evict(_, _, _, _)
\* while now_b > max_b or len(self) > max_k: popitem(last=False); now_b -= s
Evict(es, nb, max_b, max_k) ==
    IF (nb > max_b \/ Len(es) > max_k) /\ es # <<>>
    THEN Evict(Tail(es), nb - Head(es).sz, max_b, max_k)
    ELSE [entries |-> es, now_b |-> nb]

\* LRU.put(k, b, ttl, st) at time t, for ttl > 0.
LRU_put(es, nb, t, k, b, ttl, st) ==
    LET nb1 == IF Has(es, k) THEN nb - Rec(es, k).sz ELSE nb
        sz  == Len(b)
        es2 == Append(Pop(es, k), [k |-> k, body |-> b, exp |-> t + ttl,
                                   st |-> st, sz |-> sz])
    IN Evict(es2, nb1 + sz, MaxB, MaxK)

CacheInit ==
    /\ entries = <<>>
    /\ now_b = 0
    /\ lastCall = [op |-> "init", k |-> 0]

\* await _cache.get(k).  note says which of the three paths the call took.
Get(k) ==
    LET r == LRU_get(entries, now_b, now, k) IN
    /\ entries' = r.entries
    /\ now_b' = r.now_b
    /\ lastCall' = [op |-> "get", k |-> k, ret |-> r.ret,
                    note |-> IF ~Has(entries, k) THEN "absent"
                             ELSE IF Rec(entries, k).exp < now THEN "expired"
                             ELSE "hit"]
    /\ UNCHANGED <<now, poolVars, acqVars, sessVars, fetchVars, rwVars>>

\* await _cache.put(k, b, ttl, st); a call with ttl <= 0 returns at once.
\* note says whether the call stored, and whether the loop evicted; sz and ttl
\* are the len(b) and ttl of a call that stored.
Put(k, sz, ttl, st) ==
    /\ IF ttl <= 0
       THEN /\ UNCHANGED <<entries, now_b>>
            /\ lastCall' = [op |-> "put", k |-> k, ret |-> None, note |-> "noop",
                            sz |-> 0, ttl |-> 0]
       ELSE LET r == LRU_put(entries, now_b, now, k, Body(sz), ttl, st) IN
            /\ entries' = r.entries
            /\ now_b' = r.now_b
            /\ lastCall' = [op |-> "put", k |-> k, ret |-> None,
                            note |-> IF Len(r.entries) <= Len(Pop(entries, k))
                                     THEN "evicted" ELSE "stored",
                            sz |-> sz, ttl |-> ttl]
    /\ UNCHANGED <<now, poolVars, acqVars, sessVars, fetchVars, rwVars>>

CacheTick ==
    /\ now < CacheMaxTime
    /\ now' = now + 1
    /\ lastCall' = [op |-> "tick", k |-> 0]
    /\ UNCHANGED <<entries, now_b, poolVars, acqVars, sessVars, fetchVars, rwVars>>

CacheNext ==
    \/ \E k \in Keys : Get(k)
    \/ \E k \in Keys, sz \in Sizes, ttl \in Ttls, st \in Statuses : Put(k, sz, ttl, st)
    \/ CacheTick


(***************************************************************************)
(* Identity pool (src lines 133-143, 177-178)                              *)
(***************************************************************************)

InSeq(x, sq) == \E i \in 1..Len(sq) : sq[i] = x

\* _pool(host) over a configuration: MAC_POOLS.get(host, DEFAULT_MAC_POOL)
\* unless the host is the foxx portal, whose pool is list(AUTH_TOKENS).
PoolOf(host, pools, dflt, tokens) ==
    IF host # FOXX
    THEN IF host \in DOMAIN pools THEN pools[host] ELSE dflt
    ELSE tokens

_pool(host) == PoolOf(host, MAC_POOLS, DEFAULT_MAC_POOL, AUTH_TOKENS)

\* auth_token(host, mac): the MAC's token (the MAC itself stands for it) for a
\* host of TOKEN_HOSTS, else None.
auth_token(host, mac) ==
    IF host \in TOKEN_HOSTS /\ InSeq(mac, AUTH_TOKENS) THEN <<mac>> ELSE None

\* The configurations of the credentialed portal that SpecPool draws: its
\* MAC_POOLS entry P and the keys T of AUTH_TOKENS, each a sequence of
\* distinct MACs.
MaxPoolLen == 2
CfgMacs == 1..(MaxPoolLen + 1)
DistinctSeqs(n) ==
    UNION {{q \in [1..m -> CfgMacs] : \A i, j \in 1..m : i # j => q[i] # q[j]}
           : m \in 0..n}

PoolInit ==
    /\ cfg \in [host : {FOXX, "pA"}, P : DistinctSeqs(MaxPoolLen),
                 T : DistinctSeqs(MaxPoolLen)]
    /\ poolOut = <<"unset">>

PoolIdle ==
    /\ cfg = [host |-> FOXX, P |-> <<>>, T |-> <<>>]
    /\ poolOut = <<"unset">>

\* pool = _pool(host), with MAC_POOLS[host] = P and AUTH_TOKENS' keys = T.
PoolCall ==
    /\ poolOut = <<"unset">>
    /\ poolOut' = <<"pool", PoolOf(cfg.host, [h \in {cfg.host} |-> cfg.P],
                                   DEFAULT_MAC_POOL, cfg.T)>>
    /\ UNCHANGED <<cfg, now, cacheVars, acqVars, sessVars, fetchVars, rwVars>>

(***************************************************************************)
(* Playlist acquirer (src lines 180-206)                                   *)
(***************************************************************************)

\* Concurrent obtain_playlist calls.
NCall == 2
Callers == 1..NCall
NPortals == Len(PORTALS)

\* What one upstream GET can give: a transport exception, or a status and a
\* body (of 0 or more bytes).
Replies ==
    {[exc |-> TRUE, status |-> 0, body |-> Body(0)]} \cup
    [exc : {FALSE}, status : {200, 458, 500}, body : {Body(0), Body(1)}]

\* r.status_code == 200 and r.content
Usable(r) == ~r.exc /\ r.status = 200 /\ r.body # <<>>

\* chain = PORTALS[start_idx:] + PORTALS[:start_idx]
Chain(start_idx) ==
    SubSeq(PORTALS, start_idx + 1, NPortals) \o SubSeq(PORTALS, 1, start_idx)

\* The index returned is the offset in the chain (the rotation is forgotten).
ChainIdx_offset(start_idx, offs) == offs

\* idx = (start_idx + offs) % len(PORTALS)
ChainIdx(start_idx, offs) == (start_idx + offs) % NPortals

\* A cursor that stops at the end of the pool instead of wrapping.
NextPos_nowrap(pos, n) == IF pos + 1 < n THEN pos + 1 ELSE n - 1

\* _mac_pos[host] = (_mac_pos[host] + 1) % len(pool)
NextPos(pos, n) == (pos + 1) % n

\* next_mac(host): the cursor after the call and the MAC returned.
next_mac(pos, host) ==
    LET pool == _pool(host)
        p == NextPos(pos[host], Len(pool))
    IN [pos |-> [pos EXCEPT ![host] = p], mac |-> pool[p + 1]]

RECURSIVE SkipEmpty(_, _)
\* The first offset >= offs of the chain whose portal has a non-empty pool (the
\* inner "for _ in range(len(_pool(host)))" runs no iteration on the others);
\* NPortals when there is none.
SkipEmpty(chain, offs) ==
    IF offs >= Len(chain) THEN Len(chain)
    ELSE IF Len(_pool(chain[offs + 1])) > 0 THEN offs
    ELSE SkipEmpty(chain, offs + 1)

\* The place <<offs, j>> of the attempt after attempt j on chain[offs].
NextPlace(chain, offs, j) ==
    IF j + 1 < Len(_pool(chain[offs + 1]))
    THEN <<offs, j + 1>>
    ELSE <<SkipEmpty(chain, offs + 1), 0>>

IdleCall == [pc |-> "idle", start |-> 0, offs |-> 0, j |-> 0, log |-> <<>>,
             ret |-> None]

AcqInit ==
    /\ mac_pos = [h \in {PORTALS[i] : i \in 1..NPortals} |-> -1]
    /\ hist = [h \in {PORTALS[i] : i \in 1..NPortals} |-> <<>>]
    /\ call = [c \in Callers |-> IdleCall]

\* The call c goes on to the attempt at place pl of its chain: next_mac, the
\* URL, and the GET it then awaits; or, the chain exhausted, it raises
\* HTTPStatusError("No working MAC").
Attempt(c, cur, pl) ==
    LET chain == Chain(cur.start) IN
    IF pl[1] >= Len(chain)
    THEN /\ call' = [call EXCEPT ![c] = [cur EXCEPT !.pc = "fail"]]
         /\ UNCHANGED <<mac_pos, hist>>
    ELSE LET host == chain[pl[1] + 1]
             nm == next_mac(mac_pos, host)
         IN /\ mac_pos' = nm.pos
            /\ hist' = [hist EXCEPT ![host] = Append(@, nm.mac)]
            /\ call' = [call EXCEPT ![c] =
                   [cur EXCEPT !.pc = "get", !.offs = pl[1], !.j = pl[2],
                               !.log = Append(@, [host |-> host, mac |-> nm.mac,
                                                  tok |-> auth_token(host, nm.mac),
                                                  reply |-> <<"pending">>])]]

\* obtain_playlist(sid, start_idx) is called and runs to its first GET.
AcqStart(c, start_idx) ==
    /\ call[c].pc = "idle"
    /\ UNCHANGED <<now, cacheVars, poolVars, sessVars, fetchVars, rwVars>>
    /\ Attempt(c, [call[c] EXCEPT !.start = start_idx],
               <<SkipEmpty(Chain(start_idx), 0), 0>>)

\* The GET of call c ends with reply r: an exception or an unusable answer
\* goes on to the next MAC, a usable one returns (base, r.content, idx).
AcqReply(c, r) ==
    /\ call[c].pc = "get"
    /\ UNCHANGED <<now, cacheVars, poolVars, sessVars, fetchVars, rwVars>>
    /\ LET cur == call[c]
           n == Len(cur.log)
           seen == [cur EXCEPT !.log[n].reply =
                       IF Usable(r) THEN <<"usable", r.body>> ELSE <<"unusable">>]
           chain == Chain(cur.start)
       IN IF Usable(r)
          THEN /\ call' = [call EXCEPT ![c] =
                     [seen EXCEPT !.pc = "ok",
                                  !.ret = <<chain[cur.offs + 1], r.body,
                                            ChainIdx(cur.start, cur.offs)>>]]
               /\ UNCHANGED <<mac_pos, hist>>
          ELSE Attempt(c, seen, NextPlace(chain, cur.offs, cur.j))

AcqNext ==
    \/ \E c \in Callers, i \in 0..(NPortals - 1) : AcqStart(c, i)
    \/ \E c \in Callers, r \in Replies : AcqReply(c, r)

(***************************************************************************)
(* Sessions and routes (src lines 157-173, 247-278)                        *)
(*                                                                         *)
(* The code reads last_switch and last_use only in "time.time() - t", so   *)
(* a Session keeps the two ages since_switch = now - last_switch and       *)
(* since_use = now - last_use, in whole seconds.  since_switch saturates   *)
(* above MIN_SWITCH_SEC, where the code no longer tells the values apart;  *)
(* since_use saturates at UseCap where no reaper runs, and above           *)
(* SESSION_IDLE_S + REAP_EVERY where one does.                             *)
(*                                                                         *)
(* heap holds the Session objects.  An object lives as long as the         *)
(* sessions dict or a request refers to it; a request holds the object it  *)
(* looked up (sess), as the code does, also after the reaper has popped it *)
(* from the dict.  An object nobody refers to is returned to its initial   *)
(* value and its place is used for the next Session().                     *)
(*                                                                         *)
(* obtain_playlist is the call of SpecAcq, of which the routes see only    *)
(* the result: the offset of the portal that answered, or the exception.   *)
(* fetch is the call of SpecFetch, of which the segment route sees the     *)
(* returned body and status.                                               *)
(***************************************************************************)
SEG_OK_LIMIT == 6
MIN_SWITCH_SEC == 4
SESSION_IDLE_S == 30
\* asyncio.sleep(15) in cleanup_sessions
REAP_EVERY == 15

\* Concurrent requests, the value at which the environment stops feeding
\* successful segments to one session, and the saturation of since_use.
NReq == 2
MaxSegOk == 7
UseCap == 1
Reqs == 1..NReq
Sids == {"s1"}
\* The session hints of segment paths: a stream id, or a name that is none.
Hints == Sids \cup {"x"}
\* The portal_idx of a playlist URL: any integer.
PidxInputs == (-1)..NPortals
\* What a segment fetch gives, as <<body, status>>: a 2xx answer, an upstream
\* error, the synthetic 599 with its empty body.
SegResults == {<<Body(1), 200>>, <<Body(1), 404>>, <<Body(0), 599>>}
\* What obtain_playlist gives: the offset of the answering portal, -1 when it raises.
AcqResults == (-1)..(NPortals - 1)

SwitchCap == MIN_SWITCH_SEC + 1
ObjIds == 1..(NReq + Cardinality(Sids))

\* Session.__init__: last_switch = 0.0 (long ago), last_use = time.time().
\* seen is an observation of what was counted since seg_ok was last set to 0:
\* -1 once a non-2xx segment was, else the number of 2xx segments (up to
\* SEG_OK_LIMIT).
NewSession ==
    [portal_idx |-> 0, seg_ok |-> 0, since_switch |-> SwitchCap, base_url |-> "",
     lock |-> 0, since_use |-> 0, seen |-> 0]

\* A request: where it is, the Session it holds, the start_idx of its
\* obtain_playlist, what fetch gave it; base is an observation, the base_url
\* the session had when a playlist request arrived.
IdleReq == [pc |-> "idle", sess |-> 0, start |-> 0, body |-> <<>>, st |-> 0, base |-> ""]

\* The last response sent (observation): the route, the status code, the body
\* (of a segment; the body of a playlist is what rewrite_m3u8 gives).
NoResponse == [kind |-> "none", status |-> 0, body |-> <<>>]
Response(kind, body, st) == [kind |-> kind, status |-> st, body |-> body]

SessInit ==
    /\ sessions = [sid \in Sids |-> 0]
    /\ heap = [o \in ObjIds |-> NewSession]
    /\ req = [r \in Reqs |-> IdleReq]
    /\ out = NoResponse
    /\ reap_in = REAP_EVERY

\* The object o is referred to by the dict ss or by a request of rq.
Live(o, ss, rq) ==
    \/ \E sid \in Sids : ss[sid] = o
    \/ \E r \in Reqs : rq[r].sess = o

\* Objects nobody refers to any more are dropped.
Collect(h, ss, rq) == [o \in ObjIds |-> IF Live(o, ss, rq) THEN h[o] ELSE NewSession]

\* The place of the next Session().
NewObj == CHOOSE o \in ObjIds :
              /\ ~Live(o, sessions, req)
              /\ \A p \in ObjIds : p < o => Live(p, sessions, req)

\* base, for an answer of the portal host with no redirect:
\* "http://{host}/play/live.php" without its last path segment.
BaseOf(host) == host

\* A portal_idx taken as it comes.
Wrap_asis(pidx) == pidx

\* portal_idx % len(PORTALS)
Wrap(pidx) == pidx % NPortals

\* A dwell test that is always passed.
DwellOver_always(since) == TRUE

\* time.time() - sess.last_switch > MIN_SWITCH_SEC
DwellOver(since) == since > MIN_SWITCH_SEC

\* sess.seg_ok >= SEG_OK_LIMIT and time.time() - sess.last_switch > MIN_SWITCH_SEC
Trigger(seg_ok, since) == seg_ok >= SEG_OK_LIMIT /\ DwellOver(since)

\* A counter that a 2xx segment after a failure starts again.
Counted_forgiving(seg_ok, st) ==
    IF 200 <= st /\ st < 300
    THEN (IF seg_ok >= SEG_OK_LIMIT THEN 1 ELSE seg_ok + 1)
    ELSE SEG_OK_LIMIT

\* sess.seg_ok + 1 if ok else SEG_OK_LIMIT, with ok = 200 <= st < 300
Counted(seg_ok, st) == IF 200 <= st /\ st < 300 THEN seg_ok + 1 ELSE SEG_OK_LIMIT

\* The observation seen after a segment of status st.
Seen(s, st) ==
    IF 200 <= st /\ st < 300
    THEN [s EXCEPT !.seen = IF @ >= 0 /\ @ < SEG_OK_LIMIT THEN @ + 1 ELSE @]
    ELSE [s EXCEPT !.seen = -1]

\* A reset that keeps the counter.
Reset_keepcount(s) == [s EXCEPT !.since_switch = 0, !.seen = 0]

\* sess.seg_ok = 0; sess.last_switch = time.time()
Reset(s) == [s EXCEPT !.seg_ok = 0, !.since_switch = 0, !.seen = 0]

\* GET /stream/{portal_idx}/{sid}/index.m3u8, up to the await of
\* obtain_playlist: sessions[sid] (created when missing), the reset of the
\* session, and the call obtain_playlist(sid, sess.portal_idx).
PlaylistStart(r, sid, pidx) ==
    /\ req[r].pc = "idle"
    /\ LET o == IF sessions[sid] = 0 THEN NewObj ELSE sessions[sid]
       IN /\ sessions' = [sessions EXCEPT ![sid] = o]
          /\ heap' = [heap EXCEPT ![o] = [Reset(@) EXCEPT !.portal_idx = Wrap(pidx),
                                                         !.since_use = 0]]
          /\ req' = [req EXCEPT ![r] = [IdleReq EXCEPT !.pc = "pl_acq", !.sess = o,
                                                       !.start = Wrap(pidx),
                                                       !.base = heap[o].base_url]]
    /\ UNCHANGED <<out, reap_in, now, cacheVars, poolVars, acqVars, fetchVars, rwVars>>

\* obtain_playlist returns (base, raw, idx) to the playlist route: the portal
\* at offset offs of the chain answered.
PlaylistOk(r, offs) ==
    /\ req[r].pc = "pl_acq"
    /\ req' = [req EXCEPT ![r] = IdleReq]
    /\ LET o == req[r].sess
           idx == ChainIdx(req[r].start, offs)
           h == [heap EXCEPT ![o].portal_idx = idx,
                             ![o].base_url = BaseOf(Chain(req[r].start)[offs + 1])]
       IN /\ heap' = Collect(h, sessions, req')
          /\ out' = Response("playlist", <<>>, 200)
    /\ UNCHANGED <<sessions, reap_in, now, cacheVars, poolVars, acqVars, fetchVars, rwVars>>

\* obtain_playlist raises: the playlist route answers 502.
PlaylistFail(r) ==
    /\ req[r].pc = "pl_acq"
    /\ req' = [req EXCEPT ![r] = IdleReq]
    /\ heap' = Collect(heap, sessions, req')
    /\ out' = Response("playlist", <<>>, 502)
    /\ UNCHANGED <<sessions, reap_in, now, cacheVars, poolVars, acqVars, fetchVars, rwVars>>

\* Under the session lock: the second test, and either the reset and the call
\* obtain_playlist(maybe_sid, sess.portal_idx), or the release of the lock
\* and the response.
UnderLock(r, o, h, body, st) ==
    IF Trigger(h[o].seg_ok, h[o].since_switch)
    THEN /\ req' = [req EXCEPT ![r] = [IdleReq EXCEPT !.pc = "seg_acq", !.sess = o,
                                                       !.start = h[o].portal_idx,
                                                       !.body = body, !.st = st]]
         /\ heap' = [h EXCEPT ![o] = [Reset(@) EXCEPT !.lock = r]]
         /\ UNCHANGED out
    ELSE /\ req' = [req EXCEPT ![r] = IdleReq]
         /\ heap' = Collect(h, sessions, req')
         /\ out' = Response("segment", body, st)

\* A lookup that makes the Session it does not find, as sessions[maybe_sid]
\* would.
Lookup_create(ss, hint) ==
    IF hint \in Sids /\ ss[hint] # 0 THEN ss[hint] ELSE NewObj

\* sessions.get(maybe_sid): the Session of the hint, 0 for None.
Lookup(ss, hint) == IF hint \in Sids THEN ss[hint] ELSE 0

\* GET /segment/..., from the return of fetch (body, st) on: the lookup of
\* the session by the hint, the counter update and the first test; then the
\* lock, taken at once when it is free, else waited for.
Segment(r, hint, body, st) ==
    /\ req[r].pc = "idle"
    /\ IF Lookup(sessions, hint) = 0
       THEN /\ out' = Response("segment", body, st)
            /\ UNCHANGED <<heap, req>>
       ELSE LET o == Lookup(sessions, hint)
                n == Counted(heap[o].seg_ok, st)
                h == [heap EXCEPT ![o] = [Seen(@, st) EXCEPT !.since_use = 0,
                                                             !.seg_ok = n]]
            IN /\ n <= MaxSegOk
               /\ IF Trigger(n, h[o].since_switch)
                  THEN IF h[o].lock = 0
                       THEN UnderLock(r, o, h, body, st)
                       ELSE /\ heap' = h
                            /\ req' = [req EXCEPT ![r] =
                                           [IdleReq EXCEPT !.pc = "seg_wait", !.sess = o,
                                                           !.body = body, !.st = st]]
                            /\ UNCHANGED out
                  ELSE /\ heap' = h
                       /\ out' = Response("segment", body, st)
                       /\ UNCHANGED req
    /\ UNCHANGED <<sessions, reap_in, now, cacheVars, poolVars, acqVars, fetchVars, rwVars>>

\* A segment request that waited for the session lock gets it.
SegLock(r) ==
    /\ req[r].pc = "seg_wait"
    /\ heap[req[r].sess].lock = 0
    /\ UnderLock(r, req[r].sess, heap, req[r].body, req[r].st)
    /\ UNCHANGED <<sessions, reap_in, now, cacheVars, poolVars, acqVars, fetchVars, rwVars>>

\* A session that takes over what a re-acquisition found.
Reswitched_adopt(s, start, res) ==
    IF res < 0 THEN s
    ELSE [s EXCEPT !.portal_idx = ChainIdx(start, res),
                   !.base_url = BaseOf(Chain(start)[res + 1])]

\* The session after the obtain_playlist of a re-acquisition started at start
\* gave res: "await obtain_playlist(...)" binds no result.
Reswitched(s, start, res) == s

\* The obtain_playlist of a re-acquisition returns, or raises and is logged:
\* its result is dropped, the lock released, the segment answered.
SegReturn(r, res) ==
    /\ req[r].pc = "seg_acq"
    /\ req' = [req EXCEPT ![r] = IdleReq]
    /\ LET o == req[r].sess
           h == [heap EXCEPT ![o] = [Reswitched(@, req[r].start, res) EXCEPT !.lock = 0]]
       IN /\ heap' = Collect(h, sessions, req')
          /\ out' = Response("segment", req[r].body, req[r].st)
    /\ UNCHANGED <<sessions, reap_in, now, cacheVars, poolVars, acqVars, fetchVars, rwVars>>

Older(a, cap) == IF a < cap THEN a + 1 ELSE cap

\* The Session objects one second later, since_use saturating at cap.
Aged(h, cap) ==
    [o \in ObjIds |->
        IF Live(o, sessions, req)
        THEN [h[o] EXCEPT !.since_switch = Older(@, SwitchCap),
                          !.since_use = Older(@, cap)]
        ELSE h[o]]

\* One second passes.
SessTick ==
    /\ heap' = Aged(heap, UseCap)
    /\ UNCHANGED <<sessions, req, out, reap_in, now, cacheVars, poolVars, acqVars,
                   fetchVars, rwVars>>

SessNext ==
    \/ \E r \in Reqs, sid \in Sids, pidx \in PidxInputs : PlaylistStart(r, sid, pidx)
    \/ \E r \in Reqs, offs \in 0..(NPortals - 1) : PlaylistOk(r, offs)
    \/ \E r \in Reqs : PlaylistFail(r)
    \/ \E r \in Reqs, hint \in Hints, res \in SegResults :
          Segment(r, hint, res[1], res[2])
    \/ \E r \in Reqs : SegLock(r)
    \/ \E r \in Reqs, res \in AcqResults : SegReturn(r, res)
    \/ SessTick

(***************************************************************************)
(* The reaper (cleanup_sessions, src lines 164-173)                        *)
(*                                                                         *)
(* The task sleeps REAP_EVERY seconds, pops every session whose last_use   *)
(* is more than SESSION_IDLE_S seconds old, and sleeps again; it wakes     *)
(* when its sleep is over, before more time passes.  SpecReap runs it      *)
(* beside one request at a time, over the whole range of since_use.        *)
(***************************************************************************)
IdleCap == SESSION_IDLE_S + REAP_EVERY + 1
ReapReqs == {1}
ReapSegResults == {<<Body(1), 200>>, <<Body(0), 599>>}

\* A staleness test that gives a session one more sleep.
Stale_late(s) == s.since_use > SESSION_IDLE_S + REAP_EVERY

\* now - s.last_use > SESSION_IDLE_S
Stale(s) == s.since_use > SESSION_IDLE_S

\* cleanup_sessions wakes: sessions.pop(sid, None) for every stale sid.
Reap ==
    /\ reap_in = 0
    /\ sessions' = [sid \in Sids |->
                       IF sessions[sid] # 0 /\ Stale(heap[sessions[sid]])
                       THEN 0 ELSE sessions[sid]]
    /\ heap' = Collect(heap, sessions', req)
    /\ reap_in' = REAP_EVERY
    /\ UNCHANGED <<req, out, now, cacheVars, poolVars, acqVars, fetchVars, rwVars>>

\* One second passes while cleanup_sessions sleeps.
ReapTick ==
    /\ reap_in > 0
    /\ reap_in' = reap_in - 1
    /\ heap' = Aged(heap, IdleCap)
    /\ UNCHANGED <<sessions, req, out, now, cacheVars, poolVars, acqVars, fetchVars, rwVars>>

ReapNext ==
    \/ \E r \in ReapReqs, sid \in Sids : PlaylistStart(r, sid, 0)
    \/ \E r \in ReapReqs : PlaylistOk(r, 0)
    \/ \E r \in ReapReqs : PlaylistFail(r)
    \/ \E r \in ReapReqs, hint \in Sids, res \in ReapSegResults :
          Segment(r, hint, res[1], res[2])
    \/ \E r \in ReapReqs, res \in {-1} : SegReturn(r, res)
    \/ ReapTick
    \/ Reap

(***************************************************************************)
(* fetch (src lines 145-153)                                               *)
(*                                                                         *)
(* A call is the code up to "await _client.get(url)" (FetchStart) and the  *)
(* code from the answer or the exception on (FetchReply).  The cache's     *)
(* lock is free whenever a call reaches it and no await lies under it, so  *)
(* get and put run within the step that calls them.  lastCall observes the *)
(* direct cache calls of SpecCache and is left alone here.                 *)
(***************************************************************************)
NFetch == 2
Fetchers == 1..NFetch
FetchUrls == Keys
\* What the upstream GET gives a fetch: an exception, or a status and a body.
FetchReplies ==
    {[exc |-> TRUE, status |-> 0, body |-> Body(0)],
     [exc |-> FALSE, status |-> 200, body |-> Body(1)],
     [exc |-> FALSE, status |-> 404, body |-> Body(0)]}

IdleFetch == [pc |-> "idle", url |-> 0, ttl |-> 0, ret |-> None]

FetchIdle == fcall = [c \in Fetchers |-> IdleFetch]

\* An exception handler that stores what it returns.
OnError_cached(es, nb, t, url, ttl) ==
    IF ttl <= 0 THEN [entries |-> es, now_b |-> nb]
    ELSE LRU_put(es, nb, t, url, Body(0), ttl, 599)

\* The cache after "except Exception: return b"", 599": no put is made.
OnError(es, nb, t, url, ttl) == [entries |-> es, now_b |-> nb]

\* fetch(url, ttl=ttl) up to its await of the upstream GET: the cached answer
\* is returned when there is a live one.
FetchStart(c, url, ttl) ==
    /\ fcall[c].pc \in {"idle", "done"}
    /\ LET g == LRU_get(entries, now_b, now, url)
       IN /\ entries' = g.entries
          /\ now_b' = g.now_b
          /\ fcall' = [fcall EXCEPT ![c] =
                         IF g.ret # None
                         THEN [pc |-> "done", url |-> url, ttl |-> 0, ret |-> g.ret]
                         ELSE [pc |-> "get", url |-> url, ttl |-> ttl, ret |-> None]]
    /\ UNCHANGED <<now, lastCall, poolVars, acqVars, sessVars, rwVars>>

\* The upstream GET raises, or answers: the answer is put into the cache and
\* returned.
FetchReply(c, r) ==
    /\ fcall[c].pc = "get"
    /\ LET url == fcall[c].url
           ttl == fcall[c].ttl
           p == IF r.exc THEN OnError(entries, now_b, now, url, ttl)
                ELSE IF ttl <= 0 THEN [entries |-> entries, now_b |-> now_b]
                ELSE LRU_put(entries, now_b, now, url, r.body, ttl, r.status)
       IN /\ entries' = p.entries
          /\ now_b' = p.now_b
          /\ fcall' = [fcall EXCEPT ![c] =
                         [pc |-> "done", url |-> url, ttl |-> 0,
                          ret |-> IF r.exc THEN <<Body(0), 599>>
                                  ELSE <<r.body, r.status>>]]
    /\ UNCHANGED <<now, lastCall, poolVars, acqVars, sessVars, rwVars>>

\* One second passes.
FetchTick ==
    /\ now < CacheMaxTime
    /\ now' = now + 1
    /\ UNCHANGED <<entries, now_b, lastCall, fetchVars, poolVars, acqVars, sessVars, rwVars>>

FetchNext ==
    \/ \E c \in Fetchers, url \in FetchUrls, ttl \in Ttls : FetchStart(c, url, ttl)
    \/ \E c \in Fetchers, r \in FetchReplies : FetchReply(c, r)
    \/ FetchTick

(***************************************************************************)
(* rewrite_m3u8 (src lines 155, 210-226)                                   *)
(*                                                                         *)
(* A text is a sequence of characters.  The playlists are all the texts up *)
(* to MaxText characters over a letter, '?', '#', the space, the carriage  *)
(* return and the line feed.  With no '%', ':' or '/' in a line, unquote   *)
(* and the scheme repairs of normalise find nothing to act on and urljoin  *)
(* resolves every line against the directory of base.  What replaces a     *)
(* line is a text whose first elements are the pieces the f-string puts    *)
(* together: "/segment/", the scheme, "/", the netloc, the path of base.   *)
(***************************************************************************)
MaxText == 4
CR == "\r"
LF == "\n"
RwChars == {"a", "?", "#", " ", CR, LF}
Texts == UNION {[1..n -> RwChars] : n \in 0..MaxText}
\* base = "http://h/d/", as obtain_playlist cuts it from the answering URL.
RwBase == [scheme |-> "http", netloc |-> "h", path |-> "/d/"]

RwIdle == rw = [text |-> <<>>, done |-> FALSE, out |-> <<>>]
RwInit == rw \in [text : Texts, done : {FALSE}, out : {<<>>}]

RECURSIVE LStrip(_)
LStrip(s) == IF s # <<>> /\ Head(s) = " " THEN LStrip(Tail(s)) ELSE s

RECURSIVE RStrip(_)
RStrip(s) ==
    IF s # <<>> /\ s[Len(s)] = " " THEN RStrip(SubSeq(s, 1, Len(s) - 1)) ELSE s

\* seg.strip()
Strip(s) == RStrip(LStrip(s))

\* normalise(seg): unquote(seg.strip()); none of the three repairs applies.
normalise(seg) == Strip(seg)

RECURSIVE PathOf(_)
\* The path component urlparse gives for a relative reference: what comes
\* before the first '?' or '#'.
PathOf(s) ==
    IF s = <<>> \/ Head(s) \in {"?", "#"} THEN <<>> ELSE <<Head(s)>> \o PathOf(Tail(s))

\* urlparse(urljoin(base, seg)) for a seg with no scheme, netloc or '/'.
urljoin(base, seg) ==
    [scheme |-> base.scheme, netloc |-> base.netloc, path |-> <<base.path>> \o PathOf(seg)]

\* repl(m): f"/segment/{u.scheme}/{u.netloc}{u.path}" for the matched line.
repl(line) ==
    LET u == urljoin(RwBase, normalise(line))
    IN <<"/segment/", u.scheme, "/", u.netloc>> \o u.path

RECURSIVE RunEnd(_, _)
\* [^\r\n]+ from position i: the position after the run.
RunEnd(text, i) ==
    IF i <= Len(text) /\ text[i] \notin {CR, LF} THEN RunEnd(text, i + 1) ELSE i

RECURSIVE Sub(_, _, _)
\* SEG_RE.sub(repl, text) from position i on; bol says that i is where '^'
\* matches under re.M: at the start of the text and after a line feed.
Sub(text, i, bol) ==
    IF i > Len(text) THEN <<>>
    ELSE IF bol /\ text[i] \notin {"#", CR, LF}
         THEN repl(SubSeq(text, i, RunEnd(text, i) - 1))
                  \o Sub(text, RunEnd(text, i), FALSE)
         ELSE <<text[i]>> \o Sub(text, i + 1, text[i] = LF)

rewrite_m3u8(text) == Sub(text, 1, TRUE)

\* rewrite_m3u8(text, base=base) is called.
RwCall ==
    /\ ~rw.done
    /\ rw' = [rw EXCEPT !.done = TRUE, !.out = rewrite_m3u8(rw.text)]
    /\ UNCHANGED <<now, cacheVars, poolVars, acqVars, sessVars, fetchVars>>

RwNext == RwCall

(***************************************************************************)
(* Specifications                                                          *)
(***************************************************************************)

InitCache == now = 0 /\ CacheInit /\ PoolIdle /\ AcqInit /\ SessInit /\ FetchIdle /\ RwIdle
SpecCache == InitCache /\ [][CacheNext]_vars

InitPool == now = 0 /\ CacheInit /\ PoolInit /\ AcqInit /\ SessInit /\ FetchIdle /\ RwIdle
PoolNext == PoolCall
SpecPool == InitPool /\ [][PoolNext]_vars

InitAcq == now = 0 /\ CacheInit /\ PoolIdle /\ AcqInit /\ SessInit /\ FetchIdle /\ RwIdle
SpecAcq == InitAcq /\ [][AcqNext]_vars

InitReap == now = 0 /\ CacheInit /\ PoolIdle /\ AcqInit /\ SessInit /\ FetchIdle /\ RwIdle
SpecReap == InitReap /\ [][ReapNext]_vars

InitFetch == now = 0 /\ CacheInit /\ PoolIdle /\ AcqInit /\ SessInit /\ FetchIdle /\ RwIdle
SpecFetch == InitFetch /\ [][FetchNext]_vars

InitRw == now = 0 /\ CacheInit /\ PoolIdle /\ AcqInit /\ SessInit /\ FetchIdle /\ RwInit
SpecRewrite == InitRw /\ [][RwNext]_vars

Init == now = 0 /\ CacheInit /\ PoolIdle /\ AcqInit /\ SessInit /\ FetchIdle /\ RwIdle
Next == SessNext
Spec == Init /\ [][Next]_vars

(***************************************************************************)
(* Claims about the cache (checked under SpecCache)                        *)
(***************************************************************************)

Fits(es) == SumSz(es) <= MaxB /\ Len(es) <= MaxK
Stored(c) == c.op = "put" /\ c.note # "noop"
Front(es) == SubSeq(es, 1, Len(es) - 1)
Last(es) == es[Len(es)]

\* C6: after every completed put the body lengths of the stored entries sum to
\* at most max_b and at most max_k entries are stored; what a put removes is a
\* prefix of the order (the oldest entries first, the new entry last of all),
\* and no more of it than needed for both bounds to hold.
C6_PutKeepsBounds ==
    [][lastCall'.op = "put" =>
         /\ Fits(entries')
         /\ now_b' = SumSz(entries')
         /\ Stored(lastCall') =>
              LET k == lastCall'.k
                  kept == Pop(entries, k)
                  d == Len(kept) + 1 - Len(entries')
              IN /\ d >= 0
                 /\ IF entries' = <<>>
                    THEN lastCall'.sz > MaxB
                    ELSE /\ Last(entries').k = k
                         /\ Len(Last(entries').body) = lastCall'.sz
                         /\ Front(entries') = SubSeq(kept, d + 1, Len(kept))
                         /\ d > 0 => ~Fits(SubSeq(kept, d, Len(kept))
                                            \o <<Last(entries')>>)
      ]_vars

\* C6 witness: a put has just evicted, and both bounds are met with equality.
C6_Witness ==
    /\ lastCall.op = "put" /\ lastCall.note = "evicted"
    /\ Len(entries) = MaxK /\ SumSz(entries) = MaxB

\* C7 as stated: after a get that hits, and after every put with ttl > 0
\* whatever the body's size, k is in the cache and is the last (most recently
\* used) entry.
C7_Original ==
    (lastCall.op = "get" /\ lastCall.ret # None) \/ Stored(lastCall) =>
        Has(entries, lastCall.k) /\ Last(entries).k = lastCall.k

\* C7 amended: after a get that hits, k is the last entry; after a put with
\* ttl > 0 of a body of at most max_b bytes, k is present and the last entry;
\* a put of a larger body leaves the cache empty (the new entry is evicted
\* with all the others).
C7_TouchMakesMRU ==
    /\ lastCall.op = "get" /\ lastCall.ret # None =>
         Has(entries, lastCall.k) /\ Last(entries).k = lastCall.k
    /\ Stored(lastCall) =>
         IF lastCall.sz <= MaxB
         THEN Has(entries, lastCall.k) /\ Last(entries).k = lastCall.k
         ELSE entries = <<>>

\* C7 witness: a get has hit the older of two entries, which is now the last
\* although it was stored first (it expires first).
C7_Witness ==
    /\ lastCall.op = "get" /\ lastCall.note = "hit"
    /\ Len(entries) = 2 /\ entries[2].k = lastCall.k
    /\ entries[1].exp > entries[2].exp

\* C8: a put with ttl T > 0 at time t0 stores the entry with expiry t0 + T; a
\* get at a time later than the expiry is a miss, removes the entry (and only
\* it) and subtracts its body length from the byte total; a get at or before
\* the expiry returns the entry.
C8_ExpiredIsMiss ==
    [][/\ Stored(lastCall') /\ Has(entries', lastCall'.k) =>
            Rec(entries', lastCall'.k).exp = now + lastCall'.ttl
       /\ lastCall'.op = "get" /\ Has(entries, lastCall'.k) =>
            LET rec == Rec(entries, lastCall'.k) IN
            IF now > rec.exp
            THEN /\ lastCall'.ret = None
                 /\ entries' = Pop(entries, lastCall'.k)
                 /\ now_b' = now_b - Len(rec.body)
                 /\ SumSz(entries') = SumSz(entries) - Len(rec.body)
            ELSE lastCall'.ret = <<rec.body, rec.st>>
      ]_vars

\* C8 witness: a get has just found an entry expired and removed it, and an
\* entry of at least one byte is still stored.
C8_Witness ==
    /\ lastCall.op = "get" /\ lastCall.note = "expired"
    /\ ~Has(entries, lastCall.k)
    /\ entries # <<>> /\ now_b = SumSz(entries) /\ now_b > 0

(***************************************************************************)
(* Claims about the identity pool and the acquirer                         *)
(***************************************************************************)

\* P restricted to the MACs that have a token, in P's order.
Restrict(P, T) == SelectSeq(P, LAMBDA m : InSeq(m, T))

\* C9 as stated: for the credentialed portal with configured pool P and token
\* keys T the effective pool is P restricted to keys(T), in P's order; it is
\* keys(T) when P is empty, and empty when T is empty.
C9_Original ==
    poolOut # <<"unset">> /\ cfg.host \in TOKEN_HOSTS =>
        poolOut[2] = IF cfg.P = <<>> THEN cfg.T ELSE Restrict(cfg.P, cfg.T)

RECURSIVE Copies(_, _)
Copies(x, n) == IF n = 0 THEN <<>> ELSE <<x>> \o Copies(x, n - 1)

RECURSIVE WholePools(_, _)
\* |pool(p)| times each of the first n portals of the chain, in chain order.
WholePools(chain, n) ==
    IF n = 0 THEN <<>>
    ELSE WholePools(chain, n - 1) \o Copies(chain[n], Len(_pool(chain[n])))

LogHosts(c) == [i \in 1..Len(call[c].log) |-> call[c].log[i].host]

\* C4: the requests of an obtain_playlist(sid, start_idx) call go to the portals
\* in the order of the rotated chain, |pool(p)| of them to every portal that
\* gave no usable answer; no request follows a usable answer; the call that
\* got one returns its body and the absolute index (start_idx + offset) mod
\* |PORTALS| of the portal that gave it; the call that fails has made
\* |pool(p)| requests to every portal.
C4_ChainOrder ==
    \A c \in Callers :
        LET cur == call[c]
            chain == Chain(cur.start)
            n == Len(cur.log)
        IN cur.pc # "idle" =>
            /\ \A i \in 1..(n - 1) : cur.log[i].reply = <<"unusable">>
            /\ cur.pc \in {"get", "ok"} =>
                 /\ cur.j < Len(_pool(chain[cur.offs + 1]))
                 /\ LogHosts(c) = WholePools(chain, cur.offs)
                                   \o Copies(chain[cur.offs + 1], cur.j + 1)
            /\ cur.pc = "get" => cur.log[n].reply = <<"pending">>
            /\ cur.pc = "ok" =>
                 /\ cur.log[n].reply = <<"usable", cur.ret[2]>>
                 /\ cur.ret[2] # <<>>
                 /\ cur.ret[3] = (cur.start + cur.offs) % NPortals
                 /\ PORTALS[cur.ret[3] + 1] = cur.log[n].host
            /\ cur.pc = "fail" =>
                 /\ LogHosts(c) = WholePools(chain, NPortals)
                 /\ n > 0 => cur.log[n].reply = <<"unusable">>

\* C4 witness: a call started at index 2 has exhausted the portals 2 and 0 and
\* was answered by portal 1, the last of its chain.
C4_Witness ==
    \E c \in Callers :
        /\ call[c].pc = "ok" /\ call[c].start = 2 /\ call[c].offs = 2
        /\ call[c].ret[3] = 1

\* C5 as stated: a call that fails has itself issued a request for every
\* (portal, MAC) pair of the chain, whatever other calls do to the cursors
\* between its attempts.
C5_Original ==
    \A c \in Callers :
        call[c].pc = "fail" =>
            \A p \in 1..NPortals :
                \A m \in 1..Len(_pool(PORTALS[p])) :
                    \E i \in 1..Len(call[c].log) :
                        /\ call[c].log[i].host = PORTALS[p]
                        /\ call[c].log[i].mac = _pool(PORTALS[p])[m]

\* The i-th MAC of the round-robin order of a pool: m0, m1, ..., m0, ...
RoundRobin(pool, i) == pool[((i - 1) % Len(pool)) + 1]

\* C10: the MACs next_mac returns for a portal are its effective pool in
\* order, from the first element and wrapping around; a next_mac call for one
\* portal changes neither the cursor nor the sequence of another portal.
C10_RoundRobin ==
    [][\A h \in DOMAIN hist :
         /\ \A i \in 1..Len(hist'[h]) : hist'[h][i] = RoundRobin(_pool(h), i)
         /\ hist'[h] # hist[h] =>
              /\ Len(hist'[h]) = Len(hist[h]) + 1
              /\ \A g \in DOMAIN hist \ {h} :
                    hist'[g] = hist[g] /\ mac_pos'[g] = mac_pos[g]
      ]_vars

\* C10 witness: the cursor of the foxx portal has wrapped around, and the
\* cursors of the two other portals have moved too.
C10_Witness ==
    /\ hist[FOXX] = <<6, 4, 6>>
    /\ hist["pA"] # <<>>
    /\ hist["pB"] = <<3, 3>>


(***************************************************************************)
(* Claims about the sessions and the routes                                *)
(***************************************************************************)

\* An acquisition of the Session o is in flight in the request r.
Acquiring(r, o) == req[r].pc \in {"pl_acq", "seg_acq"} /\ req[r].sess = o

\* C1 as stated: a segment request that matches an existing session whose
\* lock is free starts a re-acquisition exactly when, after the counter
\* update, seg_ok >= SEG_OK_LIMIT and now - last_switch >= MIN_SWITCH_SEC.
C1_Original ==
    [][\A r \in Reqs, hint \in Sids, res \in SegResults :
          (/\ sessions[hint] # 0
           /\ heap[sessions[hint]].lock = 0
           /\ Segment(r, hint, res[1], res[2]))
          => LET s == heap[sessions[hint]]
             IN req'[r].pc = "seg_acq"
                   <=> /\ Counted(s.seg_ok, res[2]) >= SEG_OK_LIMIT
                       /\ s.since_switch >= MIN_SWITCH_SEC]_vars

\* C2 as stated: a segment request that met the rotation trigger while
\* another one held the session lock, and waited for the lock, starts no
\* second acquisition when it gets the lock.
C2_Original ==
    [][\A r \in Reqs : req[r].pc = "seg_wait" => req'[r].pc # "seg_acq"]_vars

\* C3 as stated: at every instant at most one call of obtain_playlist is in
\* flight for one session, counting those of the playlist route and those of
\* segment-triggered re-acquisitions.
C3_Original ==
    \A o \in ObjIds : Cardinality({r \in Reqs : Acquiring(r, o)}) <= 1


\* The request r ends here with obtain_playlist having raised.
Fails(r) == PlaylistFail(r)

\* seg_ok, portal_idx and base_url of a Session.
Fields(s) == <<s.seg_ok, s.portal_idx, s.base_url>>

\* i is idx mod |PORTALS|: an index of PORTALS that differs from idx by a
\* multiple of |PORTALS|.
IsMod(i, idx) ==
    /\ i \in 0..(NPortals - 1)
    /\ \E q \in (-2)..2 : idx = q * NPortals + i

\* C12 as stated: when obtain_playlist raises in a playlist request, the
\* route answers 502 and afterwards the session has seg_ok = 0, portal_idx =
\* the requested index mod |PORTALS|, and the base_url it had before the
\* request.
C12_Original ==
    [][\A r \in Reqs :
          Fails(r) =>
              /\ out'.kind = "playlist" /\ out'.status = 502
              /\ heap'[req[r].sess].seg_ok = 0
              /\ heap'[req[r].sess].portal_idx = req[r].start
              /\ heap'[req[r].sess].base_url = req[r].base]_vars

\* C12, amended: a playlist request sets seg_ok = 0 and portal_idx = the
\* requested index mod |PORTALS| before the acquisition and leaves base_url
\* as it is; when obtain_playlist raises, the route answers 502 and the
\* failing request changes no field of any session.  (What the session holds
\* afterwards is what the other requests of the session made of it during
\* the acquisition.)
C12_FailureChangesNothing ==
    [][/\ \A r \in Reqs, sid \in Sids, pidx \in PidxInputs :
             PlaylistStart(r, sid, pidx) =>
                 LET o == sessions'[sid]
                 IN /\ heap'[o].seg_ok = 0
                    /\ IsMod(heap'[o].portal_idx, pidx)
                    /\ heap'[o].base_url = heap[o].base_url
       /\ \A r \in Reqs :
             Fails(r) =>
                 /\ out'.kind = "playlist" /\ out'.status = 502
                 /\ sessions' = sessions
                 /\ \A o \in ObjIds : Fields(heap'[o]) = Fields(heap[o])]_vars

\* C12 witness: a playlist request has been answered 502 and the session,
\* which a concurrent segment request has used meanwhile, has seg_ok > 0.
C12_Witness ==
    /\ out.kind = "playlist" /\ out.status = 502
    /\ \A r \in Reqs : req[r].pc = "idle"
    /\ \E sid \in Sids : sessions[sid] # 0 /\ heap[sessions[sid]].seg_ok > 0

\* C13: in every state the portal_idx of every Session is an index of
\* PORTALS; a playlist request, whatever integer it names, sets it to that
\* integer mod |PORTALS| before the acquisition, and a successful one sets it
\* to the index in PORTALS of the portal that answered and base_url to the
\* base obtain_playlist returned for that portal.
C13_PortalIdxValid ==
    /\ [](\A o \in ObjIds : heap[o].portal_idx \in 0..(NPortals - 1))
    /\ [][/\ \A r \in Reqs, sid \in Sids, pidx \in PidxInputs :
                PlaylistStart(r, sid, pidx) =>
                    /\ IsMod(heap'[sessions'[sid]].portal_idx, pidx)
                    /\ IsMod(req'[r].start, pidx)
          /\ \A r \in Reqs, offs \in 0..(NPortals - 1) :
                PlaylistOk(r, offs) =>
                    LET s == heap'[req[r].sess]
                        host == Chain(req[r].start)[offs + 1]
                    IN /\ s.portal_idx \in 0..(NPortals - 1)
                       /\ PORTALS[s.portal_idx + 1] = host
                       /\ s.base_url = BaseOf(host)
                       /\ out'.status = 200]_vars

\* C13 witness: a playlist request was answered 200 and left the session at
\* index 0 with the base of PORTALS[0], while a second request, which named
\* the last portal, is still in its acquisition.
C13_Witness ==
    /\ out.kind = "playlist" /\ out.status = 200
    /\ \E sid \in Sids :
          /\ sessions[sid] # 0
          /\ heap[sessions[sid]].portal_idx = 0
          /\ heap[sessions[sid]].base_url = PORTALS[1]
          /\ \E r \in Reqs : req[r].pc = "pl_acq" /\ req[r].start = NPortals - 1


\* The request r starts a re-acquisition in this step.
Fires(r) == req[r].pc # "seg_acq" /\ req'[r].pc = "seg_acq"

\* Enough was counted for a rotation: a non-2xx segment, or SEG_OK_LIMIT 2xx ones.
Enough(seen) == seen = -1 \/ seen >= SEG_OK_LIMIT

\* C17: when a segment request starts a re-acquisition, at least
\* MIN_SWITCH_SEC seconds have passed since the session's last playlist
\* request or re-acquisition, and since then the session has counted
\* (the segment of this request included) at least SEG_OK_LIMIT 2xx segments
\* or at least one non-2xx segment.
C17_DwellAndCount ==
    [][\A r \in Reqs :
          Fires(r) =>
              LET o == req'[r].sess
                  s == IF req[r].pc = "idle" THEN Seen(heap[o], req'[r].st) ELSE heap[o]
              IN /\ heap[o].since_switch >= MIN_SWITCH_SEC
                 /\ Enough(s.seen)
                 /\ heap'[o].since_switch = 0 /\ heap'[o].seen = 0]_vars

\* C17 witness: a re-acquisition started by a 2xx segment has been in flight
\* for MIN_SWITCH_SEC seconds, and the session has counted two 2xx segments
\* since it started.
C17_Witness ==
    \E r \in Reqs :
        /\ req[r].pc = "seg_acq" /\ req[r].st = 200
        /\ heap[req[r].sess].since_switch = MIN_SWITCH_SEC
        /\ heap[req[r].sess].seen = 2

\* C18: a non-2xx segment on an existing session sets seg_ok to
\* SEG_OK_LIMIT, and as long as a non-2xx segment has been counted since the
\* last reset (re-acquisition or playlist request), seg_ok >= SEG_OK_LIMIT,
\* also after further 2xx segments.
C18_FailureSticks ==
    /\ [](\A o \in ObjIds : heap[o].seen = -1 => heap[o].seg_ok >= SEG_OK_LIMIT)
    /\ [][\A o \in ObjIds :
             (heap'[o].seen = -1 /\ heap'[o].seg_ok # heap[o].seg_ok)
                 => \/ heap'[o].seg_ok = SEG_OK_LIMIT
                    \/ heap[o].seen = -1 /\ heap'[o].seg_ok = heap[o].seg_ok + 1]_vars

\* C18 witness: a session that counted a non-2xx segment and then a 2xx one
\* holds seg_ok = SEG_OK_LIMIT + 1 before its dwell is over.
C18_Witness ==
    \E sid \in Sids :
        /\ sessions[sid] # 0
        /\ heap[sessions[sid]].seen = -1
        /\ heap[sessions[sid]].seg_ok = SEG_OK_LIMIT + 1
        /\ heap[sessions[sid]].since_switch < MIN_SWITCH_SEC

\* C19: a segment request whose hint names no existing session leaves the
\* sessions dict, every Session and every request in flight unchanged and is
\* answered with what fetch gave; an entry of the sessions dict is made by
\* the start of a playlist request only.
C19_LookupOnly ==
    [][/\ \A r \in Reqs, hint \in Hints, res \in SegResults :
             (Segment(r, hint, res[1], res[2]) /\ (hint \notin Sids \/ sessions[hint] = 0))
                 => /\ UNCHANGED <<sessions, heap, req>>
                    /\ out' = Response("segment", res[1], res[2])
       /\ \A sid \in Sids :
             (sessions[sid] = 0 /\ sessions'[sid] # 0)
                 => \E r \in Reqs : /\ req[r].pc = "idle" /\ req'[r].pc = "pl_acq"
                                    /\ req'[r].sess = sessions'[sid]]_vars

\* C19 witness: a segment has been served while no session exists, and no
\* Session object and no request is there.
C19_Witness ==
    /\ out.kind = "segment" /\ out.status = 200
    /\ \A sid \in Sids : sessions[sid] = 0
    /\ \A o \in ObjIds : heap[o] = NewSession
    /\ \A r \in Reqs : req[r] = IdleReq

\* C20: the step that starts a re-acquisition leaves portal_idx and base_url
\* of the session as they are and sets seg_ok to 0 and last_switch to now;
\* the step in which its obtain_playlist returns or raises changes no field
\* of the session but the lock, and answers the segment with the body and
\* the status fetch gave.
C20_ReswitchFrame ==
    [][/\ \A r \in Reqs :
             Fires(r) =>
                 LET o == req'[r].sess
                 IN /\ heap'[o].portal_idx = heap[o].portal_idx
                    /\ heap'[o].base_url = heap[o].base_url
                    /\ heap'[o].seg_ok = 0 /\ heap'[o].since_switch = 0
                    /\ req[r].pc = "seg_wait"
                          => req'[r].body = req[r].body /\ req'[r].st = req[r].st
       /\ \A r \in Reqs, hint \in Sids, res \in SegResults :
             (Segment(r, hint, res[1], res[2]) /\ req'[r].pc # "idle")
                 => req'[r].body = res[1] /\ req'[r].st = res[2]
       /\ \A r \in Reqs, res \in AcqResults :
             SegReturn(r, res) =>
                 LET o == req[r].sess
                 IN /\ heap'[o] = [heap[o] EXCEPT !.lock = 0]
                    /\ out' = Response("segment", req[r].body, req[r].st)]_vars

\* C20 witness: the re-acquisition of a session that the last playlist
\* request left at portal 1 has ended, its failed segment (599, empty body)
\* has been answered, and the session still holds portal 1 and its base.
C20_Witness ==
    /\ out = Response("segment", Body(0), 599)
    /\ \A r \in Reqs : req[r].pc = "idle"
    /\ \E sid \in Sids :
          LET s == heap[sessions[sid]]
          IN /\ sessions[sid] # 0
             /\ s.portal_idx = 1 /\ s.base_url = PORTALS[2]
             /\ s.seg_ok = 0 /\ s.seen = 0 /\ s.since_switch = 1


(***************************************************************************)
(* Claims about the reaper (checked under SpecReap)                        *)
(***************************************************************************)

\* The Session o is in the sessions dict.
InMap(o) == \E sid \in Sids : sessions[sid] = o

\* C14 as stated: a session for which a playlist acquisition or a
\* segment-triggered re-acquisition is in flight is in the sessions dict,
\* however long the acquisition takes.
C14_Original ==
    \A r \in Reqs : req[r].pc \in {"pl_acq", "seg_acq"} => InMap(req[r].sess)

C11_ErrorNotCached ==
    /\ [](\A i \in 1..Len(entries) : entries[i].st # 599)
    /\ [][/\ \A c \in Fetchers, r \in FetchReplies :
                (FetchReply(c, r) /\ r.exc)
                    => /\ fcall'[c].pc = "done"
                       /\ fcall'[c].ret = <<Body(0), 599>>
                       /\ entries' = entries /\ now_b' = now_b
          /\ \A c \in Fetchers, url \in FetchUrls, ttl \in Ttls :
                (FetchStart(c, url, ttl) /\ ~Has(entries, url))
                    => fcall'[c].pc = "get" /\ fcall'[c].url = url]_vars

\* C11 witness: a fetch of a url has returned the synthetic 599, the cache
\* (which holds another url) has no entry for it, and a second fetch of the
\* same url is waiting for its own upstream answer.
C11_Witness ==
    \E c, d \in Fetchers :
        /\ fcall[c].pc = "done" /\ fcall[c].ret = <<Body(0), 599>>
        /\ fcall[d].pc = "get" /\ fcall[d].url = fcall[c].url /\ fcall[d].ttl > 0
        /\ ~Has(entries, fcall[c].url)
        /\ entries # <<>>


(***************************************************************************)
(* Claims about rewrite_m3u8 (checked under SpecRewrite)                   *)
(***************************************************************************)

\* The first line terminator of t, 0 when there is none.
RECURSIVE FirstEol(_, _)
FirstEol(t, i) ==
    IF i > Len(t) THEN 0
    ELSE IF t[i] \in {CR, LF} THEN i ELSE FirstEol(t, i + 1)

RECURSIVE Lines(_)
\* The lines of t: a line ends at a line feed, at a carriage return followed
\* by a line feed, or at a carriage return.
Lines(t) ==
    LET i == FirstEol(t, 1)
        k == IF t[i] = CR /\ i < Len(t) /\ t[i + 1] = LF THEN 2 ELSE 1
    IN IF i = 0 THEN <<t>>
       ELSE <<SubSeq(t, 1, i - 1)>> \o Lines(SubSeq(t, i + k, Len(t)))

\* C16 as stated: the rewritten playlist has the lines of the playlist in
\* number and order; an empty line and a line that begins with '#' is
\* unchanged, every other line is replaced by a text that begins with
\* "/segment/" and holds no '?' and no '#'.
C16_Original ==
    rw.done =>
        LET I == Lines(rw.text)
            O == Lines(rw.out)
        IN /\ Len(O) = Len(I)
           /\ \A i \in 1..Len(I) :
                 IF I[i] = <<>> \/ Head(I[i]) = "#"
                 THEN O[i] = I[i]
                 ELSE /\ O[i] # <<>> /\ Head(O[i]) = "/segment/"
                      /\ \A j \in 1..Len(O[i]) : O[i][j] \notin {"?", "#"}

====
